---- MODULE Spec2Model ----
(***************************************************************************)
(* A model of scripts/fetch-jobs.mjs, the job-feed ingestion pipeline.     *)
(*                                                                         *)
(* The file holds three complete scripts, one after the other:             *)
(*   script 1: lines   1-331  (beginner filter, categories, limit 2000,    *)
(*                             write only when the content changed)        *)
(*   script 2: lines 332-525  (plain RSS pipeline)                         *)
(*   script 3: lines 526-724  (RSS + JSON parsers, tagJob, makeHash,       *)
(*                             fetchText, per-source try/catch)            *)
(* Each script declares its own SOURCES, rssToItems/parsers, dedupe and    *)
(* main.  The variable `script` says which of the three is running; the    *)
(* definitions carry the suffix _1, _2 or _3 of the script they come from. *)
(*                                                                         *)
(* Text.  A JavaScript string is a sequence of tokens; a token is a piece  *)
(* of text that the code's regular expressions never split: a word, a run  *)
(* of whitespace, a markup tag, an entity, a piece of a URL, a date.       *)
(*   " "   one space             "  "  a longer run of whitespace          *)
(* Inputs never hold two whitespace tokens side by side, so two token      *)
(* sequences are equal exactly when the strings they stand for are equal.  *)
(* Words in the inputs are separated by whitespace or punctuation tokens.  *)
(*                                                                         *)
(* Left out of the job records: excerpt (scripts 1 and 2), a prefix of the *)
(* description cut at a character count, which no step after the parser    *)
(* reads (the keys of dedupe, the comparators and the payload's counts do  *)
(* not use it).                                                            *)
(***************************************************************************)
EXTENDS Integers, Sequences, FiniteSets, TLC

(***************************************************************************)
(* Bounds of the model.                                                    *)
(***************************************************************************)
MaxClock == 3        \* the clock reads ClockStart..MaxClock
MaxRuns == 2         \* pipeline runs in a row against the same payloads
MaxSources == 2      \* sources of SOURCES that are configured (a prefix)
MaxOver == 1         \* postings a large feed holds beyond the limit of 2000
MaxChain == 7        \* redirects and 403s a server sends before its last answer

ClockStart == 2      \* reading of the clock when the first run starts
NaN == -1            \* Date.parse / getTime of an unparsable date
FeedTs == {1, 5}     \* instants the feeds' dates denote (one past, one ahead)
Instants == FeedTs \cup (0..(MaxClock + 1))

(***************************************************************************)
(* Tokens.                                                                 *)
(***************************************************************************)
IsWs(t) == t \in {" ", "  "}
IsTag(t) == t \in {"<b>", "</b>", "<strong>", "</strong>"}
IsCData(t) == t \in {"<![CDATA[", "]]>"}
\* "-" a hyphen, "ndash" an en dash (U+2013), "mdash" an em dash (U+2014)
IsDash(t) == t \in {"-", "ndash", "mdash"}
\* words made of letters only
IsWord(t) == t \in {"Virtual", "virtual", "Assistant", "assistant", "Support",
                    "support", "Rep", "rep", "Senior", "senior", "Junior",
                    "junior", "Remote", "remote", "Beginner", "beginner",
                    "Acme", "acme", "Customer", "customer", "at", "role"}

\* String.prototype.toLowerCase, token by token
LowerTok(t) ==
    CASE t = "Virtual" -> "virtual"
      [] t = "Assistant" -> "assistant"
      [] t = "Support" -> "support"
      [] t = "Rep" -> "rep"
      [] t = "Senior" -> "senior"
      [] t = "Junior" -> "junior"
      [] t = "Remote" -> "remote"
      [] t = "Beginner" -> "beginner"
      [] t = "Acme" -> "acme"
      [] t = "Customer" -> "customer"
      [] t = "EX.COM/1" -> "ex.com/1"
      [] t = "Support-Tag" -> "support-tag"
      [] OTHER -> t

toLowerCase(s) == [i \in DOMAIN s |-> LowerTok(s[i])]

\* number of characters of a token (String.prototype.length)
TokLen(t) ==
    CASE t = " " -> 1
      [] t = "  " -> 2
      [] IsDash(t) -> 1
      [] t \in {"&", "|"} -> 1
      [] t = "at" -> 2
      [] t \in {"Rep", "rep"} -> 3
      [] t \in {"Acme", "acme", "role"} -> 4
      [] t \in {"Senior", "senior", "Junior", "junior", "Remote", "remote"} -> 6
      [] t \in {"Virtual", "virtual", "Support", "support"} -> 7
      [] t \in {"Beginner", "beginner", "Customer", "customer"} -> 8
      [] t \in {"Assistant", "assistant"} -> 9
      [] OTHER -> 10

RECURSIVE StrLen(_)
StrLen(s) == IF s = <<>> THEN 0 ELSE TokLen(Head(s)) + StrLen(Tail(s))

RECURSIVE DropWs(_)
\* s without its leading whitespace
DropWs(s) == IF s # <<>> /\ IsWs(Head(s)) THEN DropWs(Tail(s)) ELSE s

Reverse(s) == [i \in 1..Len(s) |-> s[Len(s) + 1 - i]]

\* String.prototype.trim
trim(s) == Reverse(DropWs(Reverse(DropWs(s))))

RECURSIVE collapseWs(_)
\* .replace(/\s+/g, ' ')
collapseWs(s) ==
    IF s = <<>> THEN <<>>
    ELSE IF IsWs(Head(s)) THEN <<" ">> \o collapseWs(DropWs(s))
    ELSE <<Head(s)>> \o collapseWs(Tail(s))

\* a || b for strings: the empty string is falsy
Or(a, b) == IF a # <<>> THEN a ELSE b

(***************************************************************************)
(* Dates.  A date string is one token: "rfc:t" an RFC-822 date and "iso:t" *)
(* an ISO-8601 date, both denoting the instant t; any other string does    *)
(* not parse.                                                              *)
(***************************************************************************)
RfcTok(t) == "rfc:" \o ToString(t)
IsoTok(t) == "iso:" \o ToString(t)

\* new Date(s).getTime() and Date.parse(s): the instant, or NaN
DateParse(s) ==
    IF Len(s) = 1 /\ \E t \in Instants : s[1] \in {RfcTok(t), IsoTok(t)}
    THEN CHOOSE t \in Instants : s[1] \in {RfcTok(t), IsoTok(t)}
    ELSE NaN

\* new Date(t).toISOString()
toISOString(t) == <<IsoTok(t)>>

\* script 1, parseDate(s), read when the clock says `now`
parseDate(s, now) ==
    IF s = <<>> THEN toISOString(now)
    ELSE IF DateParse(s) = NaN THEN toISOString(now)
    ELSE toISOString(DateParse(s))

(***************************************************************************)
(* Text Sanitizer.                                                         *)
(***************************************************************************)
NoCData(s) == SelectSeq(s, LAMBDA t : ~IsCData(t))
TagsToSpace(s) == [i \in DOMAIN s |-> IF IsTag(s[i]) THEN " " ELSE s[i]]
\* the entities every script decodes: &amp; and, token by token, an
\* entity-encoded tag (&lt;strong&gt; is the text <strong>)
DecodeAmp(s) ==
    [i \in DOMAIN s |->
       CASE s[i] = "&amp;" -> "&"
         [] s[i] = "&lt;strong&gt;" -> "<strong>"
         [] s[i] = "&lt;/strong&gt;" -> "</strong>"
         [] OTHER -> s[i]]

\* script 1, strip(html)
strip_1(html) == trim(DecodeAmp(collapseWs(TagsToSpace(NoCData(html)))))

\* script 2, strip(html); the further entities it decodes (&nbsp; &mdash;
\* &ndash; &hellip;) occur in no input
strip_2(html) == trim(DecodeAmp(collapseWs(TagsToSpace(NoCData(html)))))

RECURSIVE stripTags(_)
\* script 3, stripTags(s): s.replace(/<[^>]*>/g, ''); a CDATA opener has no '>'
\* of its own, so the match runs on to the next token that ends in '>'
stripTags(s) ==
    IF s = <<>> THEN <<>>
    ELSE IF IsTag(Head(s)) THEN stripTags(Tail(s))
    ELSE IF Head(s) = "<![CDATA["
         THEN (IF \E i \in 2..Len(s) : IsTag(s[i]) \/ s[i] = "]]>"
               THEN LET k == CHOOSE i \in 2..Len(s) :
                               /\ IsTag(s[i]) \/ s[i] = "]]>"
                               /\ \A j \in 2..(i - 1) : ~(IsTag(s[j]) \/ s[j] = "]]>")
                    IN stripTags(SubSeq(s, k + 1, Len(s)))
               ELSE <<Head(s)>> \o stripTags(Tail(s)))
    ELSE <<Head(s)>> \o stripTags(Tail(s))

\* script 3, decodeHTML(s)
decodeHTML(s) == DecodeAmp(s)

(***************************************************************************)
(* Keyword tests.  text.includes(k) and /a|b|c/.test(text) look for a      *)
(* keyword anywhere in the text.  No word of the inputs holds a keyword as *)
(* a proper part, and no keyword made of several words can be put together *)
(* from the inputs' words unless a one-word alternative of the same test   *)
(* matches too, so a keyword occurs in a text exactly when it is one of    *)
(* the text's tokens.  The keyword lists are the code's, in full.          *)
(***************************************************************************)
includes(text, k) == \E i \in DOMAIN text : text[i] = k
test(alts, text) == \E k \in alts : includes(text, k)

\* text of the form a + ' ' + b
Join2(a, b) == a \o <<" ">> \o b

RECURSIVE join(_)
\* tags.join(' ')
join(ss) ==
    IF ss = <<>> THEN <<>>
    ELSE IF Len(ss) = 1 THEN ss[1]
    ELSE ss[1] \o <<" ">> \o join(Tail(ss))

BEGINNER_KEYWORDS ==
    {"entry", "junior", "beginner", "entry-level", "trainee", "associate",
     "intern", "no experience", "new grad", "graduate", "starter", "assistant",
     "coordinator"}

SENIOR_KEYWORDS ==
    {"senior", "lead", "principal", "director", "manager", "head of", "chief",
     "5+ years", "3+ years", "experienced", "expert", "architect"}

(***************************************************************************)
(* script 1, extractCompany(title, description).  Each of the three        *)
(* patterns reads: a separator ("at" with whitespace after it, "|" or "-" *)
(* with optional whitespace), then a captured name that starts with a     *)
(* letter and goes on lazily over letters, whitespace, "&" and ".", then  *)
(* optional whitespace and either a dash or the end of the title.  With   *)
(* the i flag the first letter may be of either case.  The lazy name ends *)
(* at the first place followed by optional whitespace and a dash or the   *)
(* end; the leftmost separator from which this succeeds gives the match.  *)
(***************************************************************************)
IsNameTok(t) == IsWord(t) \/ IsWs(t) \/ t \in {"&", "."}

\* tokens after position p up to the name's start: the whitespace skipped
WsAfter(title, p) ==
    LET rest == SubSeq(title, p + 1, Len(title))
    IN Len(rest) - Len(DropWs(rest))

\* the last token of the group that starts at q, or 0 when there is none
NameEnd(title, q) ==
    LET ends == {e \in q..Len(title) :
                   /\ \A j \in q..e : IsNameTok(title[j])
                   /\ ~IsWs(title[e])
                   /\ LET after == DropWs(SubSeq(title, e + 1, Len(title)))
                      IN after = <<>> \/ IsDash(Head(after))}
    IN IF ends = {} THEN 0 ELSE CHOOSE e \in ends : \A f \in ends : e <= f

\* whether the pattern with separator sep (needWs: \s+ rather than \s*)
\* matches from position p
MatchesAt(title, sep, needWs, p) ==
    /\ title[p] = sep
    /\ LET q == p + 1 + WsAfter(title, p)
       IN /\ needWs => WsAfter(title, p) >= 1
          /\ q <= Len(title)
          /\ IsWord(title[q])
          /\ NameEnd(title, q) # 0

\* match[1] of the pattern, or <<>> when it does not match
PatternMatch(title, sep, needWs) ==
    LET starts == {p \in DOMAIN title : MatchesAt(title, sep, needWs, p)}
    IN IF starts = {} THEN <<>>
       ELSE LET p == CHOOSE x \in starts : \A y \in starts : x <= y
                q == p + 1 + WsAfter(title, p)
            IN SubSeq(title, q, NameEnd(title, q))

\* undefined is the empty string here: every use is (j.company || '')
extractCompany(title, description) ==
    LET m1 == PatternMatch(title, "at", TRUE)
        m2 == PatternMatch(title, "|", FALSE)
        m3 == PatternMatch(title, "-", FALSE)
    IN IF m1 # <<>> /\ StrLen(m1) < 50 THEN trim(m1)
       ELSE IF m2 # <<>> /\ StrLen(m2) < 50 THEN trim(m2)
       ELSE IF m3 # <<>> /\ StrLen(m3) < 50 THEN trim(m3)
       ELSE <<>>

\* script 1, isBeginnerFriendly(title, description, tags)
isBeginnerFriendly(title, description, tags) ==
    LET text == toLowerCase(Join2(Join2(title, description), join(tags)))
        hasBeginnerKeywords == \E k \in BEGINNER_KEYWORDS : includes(text, k)
        hasSeniorKeywords == \E k \in SENIOR_KEYWORDS : includes(text, k)
    IN hasBeginnerKeywords \/ ~hasSeniorKeywords

\* script 1, categorizeJob(title, description, tags)
categorizeJob(title, description, tags) ==
    LET text == toLowerCase(Join2(Join2(title, description), join(tags)))
    IN IF test({"customer service", "support", "helpdesk", "help desk",
                "customer success"}, text) THEN "customer-service"
       ELSE IF test({"marketing", "social media", "seo", "content marketing",
                     "digital marketing"}, text) THEN "marketing"
       ELSE IF test({"sales", "account manager", "business development", "sdr",
                     "bdr"}, text) THEN "sales"
       ELSE IF test({"writer", "content", "copywriter", "editor", "blog",
                     "technical writer"}, text) THEN "writing"
       ELSE IF test({"design", "ui", "ux", "graphic", "visual", "figma",
                     "sketch"}, text) THEN "design"
       ELSE IF test({"developer", "programmer", "engineer", "coding", "software",
                     "frontend", "backend"}, text) THEN "development"
       ELSE IF test({"data", "analyst", "analytics", "sql", "excel", "tableau",
                     "bi"}, text) THEN "data"
       ELSE IF test({"virtual assistant", "va", "admin", "assistant",
                     "administrative"}, text) THEN "virtual-assistant"
       ELSE IF test({"project manager", "coordinator", "scrum", "agile",
                     "project coordinator"}, text) THEN "project-management"
       ELSE "other"

\* Array.prototype.slice(0, n)
slice(s, n) == SubSeq(s, 1, IF Len(s) < n THEN Len(s) ELSE n)

\* tags.push(t) when c
PushIf(c, t) == IF c THEN <<t>> ELSE <<>>

\* script 1, generateTags(title, description, category)
generateTags(title, description, category) ==
    LET text == toLowerCase(Join2(title, description))
        tags ==
          PushIf(\E k \in BEGINNER_KEYWORDS : includes(text, k), "entry-level")
          \o PushIf(test({"junior", "1-2 years"}, text), "junior")
          \o (IF test({"part time", "part-time", "parttime"}, text)
                THEN <<"part-time">>
              ELSE IF test({"contract", "contractor", "freelance"}, text)
                THEN <<"contract">>
              ELSE IF test({"intern", "internship"}, text) THEN <<"internship">>
              ELSE <<"full-time">>)
          \o PushIf(test({"remote", "anywhere", "global", "distributed"}, text),
                    "remote")
          \o PushIf(category # "other", category)
          \o PushIf(test({"no experience", "entry level", "beginner"}, text),
                    "no-experience")
    IN slice(tags, 6)

(***************************************************************************)
(* Payloads.  An RSS body is the sequence of its <item> blocks; a block is *)
(* the raw content of each tag the parsers pick (the empty string when the *)
(* tag is absent) and the list of its <category> contents.  A JSON body is *)
(* malformed, or an object whose "jobs" is an array or is not one.         *)
(***************************************************************************)
\* the first tag of `tags` (in order) with content in the block, as pick()/get()
\* chained with || read it
OrTags(block, tags) ==
    IF \E i \in DOMAIN tags : block[tags[i]] # <<>>
    THEN block[tags[CHOOSE i \in DOMAIN tags :
                      /\ block[tags[i]] # <<>>
                      /\ \A j \in 1..(i - 1) : block[tags[j]] = <<>>]]
    ELSE <<>>

\* link.replace(/\?.*$/, ''): the link up to its first '?'
IsQuery(t) == t \in {"?ref=abc"}
dropQuery(link) ==
    IF \E i \in DOMAIN link : IsQuery(link[i])
    THEN SubSeq(link, 1, (CHOOSE i \in DOMAIN link :
                            /\ IsQuery(link[i])
                            /\ \A j \in 1..(i - 1) : ~IsQuery(link[j])) - 1)
    ELSE link

\* link.startsWith('http')
startsWithHttp(link) == link # <<>> /\ link[1] \in {"http://", "https://"}

(***************************************************************************)
(* script 1, rssToItems(xml, sourceName), one <item> block at a time.      *)
(***************************************************************************)
title_1(block) == strip_1(block.title)
link_1(block) == dropQuery(Or(strip_1(block.link), strip_1(block.guid)))
description_1(block) ==
    strip_1(OrTags(block, <<"description", "content", "summary">>))
rssCategories_1(block) ==
    [i \in DOMAIN block.categories |-> strip_1(block.categories[i])]

\* the block is pushed: none of the loop's `continue`s is taken
pushed_1(block) ==
    /\ startsWithHttp(link_1(block))
    /\ title_1(block) # <<>>
    /\ link_1(block) # <<>>
    /\ isBeginnerFriendly(title_1(block), description_1(block),
                          rssCategories_1(block))

item_1(block, sourceName, now) ==
    LET title == title_1(block)
        description == description_1(block)
        category == categorizeJob(title, description, rssCategories_1(block))
    IN [title |-> title,
        company |-> extractCompany(title, description),
        source |-> sourceName,
        source_url |-> link_1(block),
        posted_at |-> parseDate(Or(strip_1(block.pubDate), strip_1(block.date)),
                                now),
        tags |-> generateTags(title, description, category),
        location |-> <<"Remote">>,
        category |-> category]

rssToItems_1(xml, sourceName, now) ==
    LET blocks == SelectSeq(xml, LAMBDA b : pushed_1(b))
    IN [i \in DOMAIN blocks |-> item_1(blocks[i], sourceName, now)]

(***************************************************************************)
(* script 2, rssToItems(xml, sourceName).                                  *)
(***************************************************************************)
title_2(block) == strip_2(block.title)
link_2(block) == Or(strip_2(block.link), strip_2(block.guid))
description_2(block) == strip_2(OrTags(block, <<"description", "summary">>))
pubDate_2(block, now) == Or(OrTags(block, <<"pubDate", "date">>), toISOString(now))

pushed_2(block) == title_2(block) # <<>> /\ link_2(block) # <<>>

\* new Date(pubDate).toISOString() throws a RangeError on an invalid date
throws_2(block, now) == pushed_2(block) /\ DateParse(pubDate_2(block, now)) = NaN

tags_2(block) ==
    LET fullText == toLowerCase(Join2(title_2(block), description_2(block)))
    IN PushIf(test({"entry", "junior", "jr", "associate", "intern", "trainee",
                    "graduate", "new grad", "no experience", "beginner"},
                   fullText), "entry-level")
       \o PushIf(test({"junior", "jr", "1-2 years"}, fullText), "junior")
       \o PushIf(test({"senior", "sr", "lead", "principal", "staff",
                       "experienced", "expert"}, fullText), "senior")
       \o (IF test({"part time", "part-time", "parttime"}, fullText)
             THEN <<"part-time">>
           ELSE IF test({"contract", "freelance", "consultant"}, fullText)
             THEN <<"contract">>
           ELSE IF test({"intern", "internship"}, fullText) THEN <<"internship">>
           ELSE <<"full-time">>)
       \o <<"remote">>

item_2(block, sourceName, now) ==
    [title |-> title_2(block),
     company |-> <<>>,
     source |-> sourceName,
     source_url |-> link_2(block),
     posted_at |-> toISOString(DateParse(pubDate_2(block, now))),
     tags |-> tags_2(block),
     location |-> <<"Remote">>]

rssToItemsThrows_2(xml, now) == \E i \in DOMAIN xml : throws_2(xml[i], now)

rssToItems_2(xml, sourceName, now) ==
    LET blocks == SelectSeq(xml, LAMBDA b : pushed_2(b))
    IN [i \in DOMAIN blocks |-> item_2(blocks[i], sourceName, now)]

(***************************************************************************)
(* script 3, parseGenericRSS, parseRemotiveJSON, tagJob, makeHash.         *)
(***************************************************************************)
\* get(tag): decodeHTML(stripTags(m[1].trim())), '' when the tag is absent
get(block, tag) == decodeHTML(stripTags(trim(block[tag])))

\* positions where title holds sep with whitespace on both sides
SepAt(title, sep) ==
    {i \in 2..(Len(title) - 1) :
       title[i] = sep /\ IsWs(title[i - 1]) /\ IsWs(title[i + 1])}

\* title.split(sep)[0].trim()
BeforeSep(title, sep) ==
    LET i == CHOOSE x \in SepAt(title, sep) : \A y \in SepAt(title, sep) : x <= y
    IN trim(SubSeq(title, 1, i - 1))

\* desc.match(/<strong>(.*?)<\/strong>/i): the text between the first
\* <strong> and the first </strong> after it, tags stripped and trimmed
StrongSpan(desc) ==
    LET opens == {i \in DOMAIN desc :
                    /\ desc[i] = "<strong>"
                    /\ \E j \in (i + 1)..Len(desc) : desc[j] = "</strong>"}
    IN IF opens = {} THEN <<>>
       ELSE LET i == CHOOSE x \in opens : \A y \in opens : x <= y
                j == CHOOSE x \in (i + 1)..Len(desc) :
                       /\ desc[x] = "</strong>"
                       /\ \A y \in (i + 1)..(x - 1) : desc[y] # "</strong>"
            IN trim(stripTags(SubSeq(desc, i + 1, j - 1)))

company_3(title, desc) ==
    LET bySep == IF SepAt(title, "ndash") # {} THEN BeforeSep(title, "ndash")
                 ELSE IF SepAt(title, "mdash") # {} THEN BeforeSep(title, "mdash")
                 ELSE IF SepAt(title, "-") # {} THEN BeforeSep(title, "-")
                 ELSE <<>>
    IN IF bySep # <<>> THEN bySep ELSE StrongSpan(desc)

parseGenericRSS(xml, sourceName) ==
    [i \in DOMAIN xml |->
       LET title == get(xml[i], "title")
           desc == get(xml[i], "description")
       IN [source |-> sourceName,
           source_url |-> get(xml[i], "link"),
           title |-> title,
           company |-> company_3(title, desc),
           location |-> <<>>,
           remote_type |-> "remote",
           tags |-> <<>>,
           salary |-> <<>>,
           posted_at |-> Or(Or(get(xml[i], "pubDate"), get(xml[i], "updated")),
                            get(xml[i], "dcdate"))]]

\* JSON.parse(jsonText) throws a SyntaxError
parseRemotiveJSONThrows(jsonText) == jsonText.kind = "malformed"

parseRemotiveJSON(jsonText, sourceName) ==
    LET jobs == IF jsonText.kind = "list" THEN jsonText.jobs ELSE <<>>
    IN [i \in DOMAIN jobs |->
          [source |-> sourceName,
           source_url |-> jobs[i].url,
           title |-> jobs[i].title,
           company |-> jobs[i].company_name,
           location |-> jobs[i].candidate_required_location,
           remote_type |-> "remote",
           tags |-> slice(jobs[i].tags, 5),
           salary |-> jobs[i].salary,
           posted_at |-> jobs[i].publication_date]]

RECURSIVE uniq(_)
\* Array.from(new Set(a)): the first occurrence of each entry, in order
uniq(a) ==
    IF a = <<>> THEN <<>>
    ELSE LET init == uniq(SubSeq(a, 1, Len(a) - 1))
             last == a[Len(a)]
         IN IF \E i \in DOMAIN init : init[i] = last THEN init
            ELSE Append(init, last)

\* tagJob(job).tags
tagJob(job) ==
    LET title == toLowerCase(job.title)
        t == PushIf(test({"support", "customer", "helpdesk", "help desk"}, title),
                    "Customer Support")
             \o PushIf(test({"assistant", "va", "virtual assistant"}, title),
                       "Virtual Assistant")
             \o PushIf(test({"dataentry", "data entry"}, title), "Data Entry")
             \o PushIf(test({"social", "content", "community", "copy", "writer"},
                            title), "Social / Content")
             \o PushIf(test({"projectcoordinator", "project coordinator",
                             "projectmanager", "project manager", "projectpm",
                             "project pm"}, title), "Project Coord/PM (Jr)")
    IN [job EXCEPT !.tags = uniq(job.tags \o t)]

(***************************************************************************)
(* Fingerprints.  A digest (md5, sha1) is taken to be free of collisions:  *)
(* it is the text it is computed from.                                     *)
(***************************************************************************)
digest(text) == text

\* script 3, makeHash(job)
makeHash(job) == digest(toLowerCase(job.title \o job.company \o job.source_url))

\* script 1, the key dedupe computes for j
key_1(j) ==
    LET normalizedTitle == trim(collapseWs(toLowerCase(j.title)))
        normalizedCompany == trim(collapseWs(toLowerCase(j.company)))
    IN digest(normalizedTitle \o <<"|">> \o normalizedCompany \o <<"|">>
              \o j.source_url)

\* script 2, the key dedupe computes for j
key_2(j) == digest(j.title \o <<"|">> \o j.source_url)

(***************************************************************************)
(* Deduplication and ordering.                                             *)
(***************************************************************************)
\* the entries of s at the positions in idx, in order
AtPositions(s, idx) ==
    LET z == SelectSeq([i \in DOMAIN s |-> <<i, s[i]>>], LAMBDA p : p[1] \in idx)
    IN [i \in DOMAIN z |-> z[i][2]]

\* a filter that would let the last item of each key pass, not the first
filterLastSeen(items, keys) ==
    AtPositions(items,
                {i \in DOMAIN items : \A j \in (i + 1)..Len(items) : keys[j] # keys[i]})

\* items.filter(j => seen.has(key) ? false : (seen.add(key), true)), keys[i]
\* being the key of items[i]: an item passes when no earlier item had its key
filterSeen(items, keys) ==
    LET key == keys \o <<>>     \* each key is computed once, as in the code
    IN AtPositions(items,
                   {i \in DOMAIN items : \A j \in 1..(i - 1) : key[j] # key[i]})

\* script 1, dedupe(items)
dedupe_1(items) == filterSeen(items, [i \in DOMAIN items |-> key_1(items[i])])

\* script 2, dedupe(items)
dedupe_2(items) == filterSeen(items, [i \in DOMAIN items |-> key_2(items[i])])

\* script 3, the de-dupe loop of main over j.hash
dedupe_3(all) == filterSeen(all, [i \in DOMAIN all |-> all[i].hash])

RECURSIVE sortAsc(_, _, _)
\* a sort with the comparator's operands exchanged: smaller numbers first
sortAsc(jobs, ts, vals) ==
    IF vals = {} THEN <<>>
    ELSE LET v == CHOOSE x \in vals : \A y \in vals : x <= y
         IN AtPositions(jobs, {i \in DOMAIN jobs : ts[i] = v})
            \o sortAsc(jobs, ts, vals \ {v})

RECURSIVE sortDesc(_, _, _)
\* Array.prototype.sort((a, b) => ts(b) - ts(a)), ts[i] being the number the
\* comparator reads off jobs[i] and vals the numbers still to place: the sort
\* is stable, larger numbers first, equal numbers in their earlier order
sortDesc(jobs, ts, vals) ==
    IF vals = {} THEN <<>>
    ELSE LET v == CHOOSE x \in vals : \A y \in vals : x >= y
         IN AtPositions(jobs, {i \in DOMAIN jobs : ts[i] = v})
            \o sortDesc(jobs, ts, vals \ {v})

\* new Date(posted_at) - ..., as scripts 1 and 2 compare; every job they
\* build holds an ISO date, so the difference is never NaN
sortByDate(jobs) ==
    LET ts == [i \in DOMAIN jobs |-> DateParse(jobs[i].posted_at)]
    IN sortDesc(jobs, ts, {ts[i] : i \in DOMAIN jobs})

LIMIT == 2000

\* script 1, sortAndLimit(jobs)
sortAndLimit(jobs) == slice(sortByDate(jobs), LIMIT)

\* script 3, toTs(d) of main, `now` being Date.now() read before the sort
toTs(d, now) == IF DateParse(d) # NaN THEN DateParse(d) ELSE now

\* script 3, deduped.sort((a, b) => toTs(b.posted_at) - toTs(a.posted_at))
sort_3(deduped, now) ==
    LET ts == [i \in DOMAIN deduped |-> toTs(deduped[i].posted_at, now)]
    IN sortDesc(deduped, ts, {ts[i] : i \in DOMAIN deduped})

(***************************************************************************)
(* Transport.  A server is the sequence of responses it gives to the       *)
(* requests of one fetch, in order; when the sequence is used up the next  *)
(* request fails in the network (fetch rejects).  A response is its        *)
(* status, whether it carries a Location header, and its body.             *)
(***************************************************************************)
IsOk(res) == res.status >= 200 /\ res.status <= 299

RECURSIVE follow(_)
\* fetch(url, {redirect: 'follow'}): the first response that is not a redirect
\* with a Location, or "rejected"
follow(rs) ==
    IF rs = <<>> THEN [rejected |-> TRUE]
    ELSE IF Head(rs).status \in {301, 302, 303, 307, 308} /\ Head(rs).location
         THEN follow(Tail(rs))
    ELSE [rejected |-> FALSE, res |-> Head(rs)]

Null == [null |-> TRUE]

\* scripts 1 and 2, safeFetch(url): the body, or null
safeFetch(rs) ==
    LET r == follow(rs)
    IN IF r.rejected THEN Null
       ELSE IF ~IsOk(r.res) THEN Null
       ELSE [null |-> FALSE, text |-> r.res.body]

\* script 3, fetchJSON(url): the body, or a throw
fetchJSON(rs) ==
    LET r == follow(rs)
    IN IF r.rejected THEN [threw |-> TRUE]
       ELSE IF ~IsOk(r.res) THEN [threw |-> TRUE]
       ELSE [threw |-> FALSE, text |-> r.res.body]

RetryDelay == 500    \* setTimeout(r, 500) before the retry of a 403

\* one request of a fetchText call: url, the number of redirects between the
\* URL the call was given and the URL the request goes to; depth, the depth
\* of the call that issues it; cause, what made the call ("call", or
\* "redirect" or "retry" when fetchText called itself); delay, the wait
\* before it; status, what came back (0 when fetch rejected)
Request(depth, status) ==
    [url |-> 0, depth |-> depth, cause |-> "call", delay |-> 0, status |-> status]

\* throw new Error(...) in the call that issued req
Throw(reason, req) == [threw |-> TRUE, reason |-> reason, log |-> <<req>>]

\* return fetchText(next, depth + 1): the outcome r of the inner call, its
\* requests coming after req; the inner call was made for `cause`, after
\* `delay`, with a URL `hop` redirects away from the URL of this call
Inner(req, cause, delay, hop, r) ==
    [r EXCEPT !.log =
       <<req>> \o [i \in DOMAIN r.log |->
                    [url |-> r.log[i].url + hop,
                     depth |-> r.log[i].depth,
                     cause |-> IF i = 1 THEN cause ELSE r.log[i].cause,
                     delay |-> IF i = 1 THEN delay ELSE r.log[i].delay,
                     status |-> r.log[i].status]]]

RECURSIVE fetchTextRetryAgain(_, _)
\* a fetchText that would retry a 403 whenever depth <= 1
fetchTextRetryAgain(rs, depth) ==
    IF rs = <<>> THEN Throw("network", Request(depth, 0))
    ELSE LET res == Head(rs)
             req == Request(depth, res.status)
         IN IF res.status \in {301, 302, 307, 308}
            THEN (IF ~res.location THEN Throw("redirect-without-location", req)
                  ELSE IF depth > 5 THEN Throw("too-many-redirects", req)
                  ELSE Inner(req, "redirect", 0, 1,
                             fetchTextRetryAgain(Tail(rs), depth + 1)))
            ELSE IF res.status = 403 /\ depth <= 1
            THEN Inner(req, "retry", RetryDelay, 0,
                       fetchTextRetryAgain(Tail(rs), depth + 1))
            ELSE IF ~IsOk(res) THEN Throw("status", req)
            ELSE [threw |-> FALSE, text |-> res.body, log |-> <<req>>]

RECURSIVE fetchText(_, _)
\* script 3, fetchText(url, depth), rs being what the server answers from
\* this request on: the body, or a throw, and the requests made
fetchText(rs, depth) ==
    IF rs = <<>> THEN Throw("network", Request(depth, 0))
    ELSE LET res == Head(rs)
             req == Request(depth, res.status)
         IN IF res.status \in {301, 302, 307, 308}
            THEN (IF ~res.location THEN Throw("redirect-without-location", req)
                  ELSE IF depth > 5 THEN Throw("too-many-redirects", req)
                  ELSE Inner(req, "redirect", 0, 1, fetchText(Tail(rs), depth + 1)))
            ELSE IF res.status = 403 /\ depth = 0
            THEN Inner(req, "retry", RetryDelay, 0, fetchText(Tail(rs), depth + 1))
            ELSE IF ~IsOk(res) THEN Throw("status", req)
            ELSE [threw |-> FALSE, text |-> res.body, log |-> <<req>>]

(***************************************************************************)
(* Configuration.                                                          *)
(***************************************************************************)
SOURCES_1 ==
    << [name |-> "Remote OK - All", type |-> "rss"],
       [name |-> "Remote.co - All", type |-> "rss"],
       [name |-> "Jobicy - All", type |-> "rss"],
       [name |-> "Himalayas - Jobs", type |-> "rss"],
       [name |-> "We Work Remotely", type |-> "rss"],
       [name |-> "AngelList Remote", type |-> "rss"] >>

SOURCES_2 ==
    << [name |-> "Remote OK", type |-> "rss"],
       [name |-> "We Work Remotely", type |-> "rss"],
       [name |-> "Jobicy", type |-> "rss"],
       [name |-> "Himalayas", type |-> "rss"],
       [name |-> "Remote.co", type |-> "rss"] >>

SOURCES_3 ==
    << [name |-> "We Work Remotely - Customer Support", type |-> "rss"],
       [name |-> "Remotive - API", type |-> "json"],
       [name |-> "Remote.co - Customer Service", type |-> "rss"],
       [name |-> "Working Nomads - All", type |-> "rss"] >>

\* the sources a run of script k goes through: the first MaxSources of its list
SOURCES(k) ==
    slice(CASE k = 1 -> SOURCES_1 [] k = 2 -> SOURCES_2 [] OTHER -> SOURCES_3,
          MaxSources)

\* SOURCES.map(s => s.name)
SourceNames(k) == [i \in DOMAIN SOURCES(k) |-> SOURCES(k)[i].name]

(***************************************************************************)
(* Inputs: the <item> blocks, feeds, JSON bodies and servers a run meets.  *)
(***************************************************************************)
Block(title, link, guid, pubDate, description, categories) ==
    [title |-> title, link |-> link, guid |-> guid, pubDate |-> pubDate,
     date |-> <<>>, updated |-> <<>>, dcdate |-> <<>>,
     description |-> description, content |-> <<>>, summary |-> <<>>,
     categories |-> categories]

\* "Virtual Assistant", dated, with a tracking query on its link
bVA ==
    Block(<<"Virtual", " ", "Assistant">>, <<"https://", "ex.com/1", "?ref=abc">>,
          <<>>, <<RfcTok(1)>>, <<"Junior", " ", "support", " ", "role">>, <<>>)
\* the same posting in another letter case, spacing and date format
bVa2 ==
    Block(<<"virtual", "  ", "assistant">>,
          <<"https://", "ex.com/1", "?ref=abc">>, <<>>, <<IsoTok(1)>>,
          <<"Junior", " ", "support", " ", "role">>, <<>>)
\* a senior role, dated ahead of the clock
bSenior ==
    Block(<<"Senior", " ", "Rep">>, <<"https://", "ex.com/2">>, <<>>,
          <<RfcTok(5)>>, <<>>, <<>>)
\* a relative link and a date that does not parse
bRel ==
    Block(<<"Support", " ", "Rep">>, <<"/job/3">>, <<>>, <<"garbage">>, <<>>, <<>>)
\* a title that is markup only, and no date
bEmpty ==
    Block(<<"<b>", "</b>">>, <<"https://", "ex.com/4">>, <<>>, <<>>, <<>>, <<>>)
\* a sound posting without a date, company after a hyphen
bNoDate ==
    Block(<<"Junior", " ", "Rep", " ", "-", " ", "Acme">>,
          <<"https://", "ex.com/5">>, <<>>, <<>>, <<>>, <<>>)
\* CDATA title, company after "at", guid instead of link, encoded markup
bAt ==
    Block(<<"<![CDATA[", "Remote", " ", "Support", " ", "at", " ", "Acme", "]]>">>,
          <<>>, <<"https://", "ex.com/6">>, <<RfcTok(5)>>,
          <<"&lt;strong&gt;", "Acme", "&lt;/strong&gt;", " ", "Beginner", " ",
            "role">>,
          << <<"Customer">> >>)

Feeds ==
    { <<>>, <<bVA, bSenior>>, <<bVa2, bNoDate>>, <<bVA, bRel, bSenior>>,
      <<bEmpty, bAt>>,
      <<bSenior, bVA, bVa2>> }

Posting(url, title, company_name, tags, publication_date) ==
    [url |-> url, title |-> title, company_name |-> company_name,
     candidate_required_location |-> <<>>, tags |-> tags, salary |-> <<>>,
     publication_date |-> publication_date]

\* the posting of bVA again, from the API, with a repeated tag
jVA ==
    Posting(<<"https://", "ex.com/1", "?ref=abc">>, <<"Virtual", " ", "Assistant">>,
            <<>>, <<"t1", "t1", "Virtual Assistant">>, <<IsoTok(5)>>)
\* six tags from the API, a title that earns two more, no date
jSupport ==
    Posting(<<"https://", "ex.com/7">>, <<"Support", " ", "Assistant">>,
            <<"Acme">>, <<"t1", "t2", "t3", "t4", "t5", "t6">>, <<>>)

JsonBodies ==
    { [kind |-> "malformed"], [kind |-> "nolist"],
      [kind |-> "list", jobs |-> <<jVA>>],
      [kind |-> "list", jobs |-> <<jSupport, jVA>>] }

Response(status, location, body) ==
    [status |-> status, location |-> location, body |-> body]

\* what a server answers: the body at once, an error status, nothing at all,
\* a redirect and then the body, a 403 and then the body
Servers(bodies, none, b1, b2) ==
    {<<Response(200, FALSE, b)>> : b \in bodies}
    \cup { <<Response(500, FALSE, none)>>,
           <<>>,
           <<Response(301, TRUE, none), Response(200, FALSE, b1)>>,
           <<Response(403, FALSE, none), Response(200, FALSE, b2)>> }

RssServers == Servers(Feeds, <<>>, <<bVA, bSenior>>, <<bVa2, bNoDate>>)
JsonServers ==
    Servers(JsonBodies, [kind |-> "nolist"], [kind |-> "list", jobs |-> <<jVA>>],
            [kind |-> "list", jobs |-> <<jVA>>])

ServersOf(src) == IF src.type = "json" THEN JsonServers ELSE RssServers

RECURSIVE ServerChoices(_, _)
\* one server for each of the first n sources of srcs
ServerChoices(srcs, n) ==
    IF n = 0 THEN {<<>>}
    ELSE {Append(f, sv) : f \in ServerChoices(srcs, n - 1), sv \in ServersOf(srcs[n])}

\* the i-th posting of a large feed: a sound posting with a link of its own,
\* the even ones dated ahead of the clock and the odd ones in the past
bulkBlock(i) ==
    Block(<<"Virtual", " ", "Assistant">>,
          <<"https://", "ex.com/job/" \o ToString(i)>>, <<>>,
          <<RfcTok(IF i % 2 = 0 THEN 5 ELSE 1)>>,
          <<"Junior", " ", "support", " ", "role">>, <<>>)

\* a feed of n postings, no two with the same link
BulkFeed(n) == [i \in 1..n |-> bulkBlock(i)]

\* the servers a source meets next to a large feed: an error status, a small
\* body, or (RSS) a feed with a date that does not parse
BulkOthers(src) ==
    IF src.type = "json"
    THEN { <<Response(500, FALSE, [kind |-> "nolist"])>>,
           <<Response(200, FALSE, [kind |-> "list", jobs |-> <<jSupport, jVA>>])>> }
    ELSE { <<Response(500, FALSE, <<>>)>>,
           <<Response(200, FALSE, <<bVa2, bNoDate>>)>>,
           <<Response(200, FALSE, <<bVA, bRel, bSenior>>)>> }

RECURSIVE BulkChoices(_, _)
\* a large feed for the first source and one of BulkOthers for each other one
BulkChoices(srcs, n) ==
    IF n = 1 THEN {<< <<Response(200, FALSE, BulkFeed(LIMIT + MaxOver))>> >>}
    ELSE {Append(f, sv) : f \in BulkChoices(srcs, n - 1), sv \in BulkOthers(srcs[n])}

RECURSIVE Chains(_)
\* the sequences of at most n responses, each a redirect with a Location or
\* a 403
Chains(n) ==
    IF n = 0 THEN {<<>>}
    ELSE LET c == Chains(n - 1)
         IN c \cup {<<r>> \o t : r \in {Response(302, TRUE, <<>>),
                                        Response(403, FALSE, <<>>)},
                                 t \in {x \in c : Len(x) = n - 1}}

\* servers that send a chain of redirects and 403s and then a feed, an error
\* status, a redirect without Location, or nothing at all
ChainServers ==
    {c \o t : c \in Chains(MaxChain),
              t \in { <<Response(200, FALSE, <<bVA, bSenior>>)>>,
                      <<Response(500, FALSE, <<>>)>>,
                      <<Response(301, FALSE, <<>>)>>,
                      <<>> }}

(***************************************************************************)
(* The state of a run of main().                                           *)
(***************************************************************************)
VARIABLES
    script,     \* which of the three scripts runs: 1, 2 or 3
    server,     \* server[i]: what the server of source i answers, every run
    run,        \* the number of the run under way
    pc,         \* where main() is: "loop", "dedupe", "sort", "write", "done",
                \* or "aborted" when main() rejected
    idx,        \* the source the for loop is at
    clock,      \* what new Date() / Date.now() reads
    allJobs,    \* allJobs (scripts 1, 2), all (script 3)
    jobs,       \* jobs (scripts 1, 2), deduped (script 3)
    sortNow,    \* script 3: `now` of main, read before the sort
    file,       \* the text of site/public/jobs.json, <<>> when there is none
    payload,    \* the document the run built
    written,    \* whether the run wrote the file: "yes", "skipped", "no"
    failed,     \* the sources whose fetch or parse failed in this run
    docs,       \* the documents built by the runs so far, in order
    lastFetch   \* script 3: how the last fetchText call went, and its requests

vars == <<script, server, run, pc, idx, clock, allJobs, jobs, sortNow, file,
          payload, written, failed, docs, lastFetch>>

NoPayload == [none |-> TRUE]
NoFetch == [none |-> TRUE]

InitRun ==
    /\ run = 1
    /\ pc = "loop"
    /\ idx = 1
    /\ clock = ClockStart
    /\ allJobs = <<>>
    /\ jobs = <<>>
    /\ sortNow = 0
    /\ file = <<>>
    /\ payload = NoPayload
    /\ written = "no"
    /\ failed = {}
    /\ docs = <<>>
    /\ lastFetch = NoFetch

Init ==
    /\ script \in 1..3
    /\ server \in ServerChoices(SOURCES(script), Len(SOURCES(script)))
    /\ InitRun

\* a run whose first source serves more postings than the limit
InitBulk ==
    /\ script \in 1..3
    /\ server \in BulkChoices(SOURCES(script), Len(SOURCES(script)))
    /\ InitRun

\* a run whose first source is behind a chain of redirects and 403s, the
\* other sources answering with an error status
InitFetch ==
    /\ script \in 1..3
    /\ \E first \in ChainServers :
         server = [i \in DOMAIN SOURCES(script) |->
                     IF i = 1 THEN first
                     ELSE IF SOURCES(script)[i].type = "json"
                          THEN <<Response(500, FALSE, [kind |-> "nolist"])>>
                          ELSE <<Response(500, FALSE, <<>>)>>]
    /\ InitRun

\* the for loop moves to the next source, or main() goes on after the loop
Advance ==
    /\ idx' = idx + 1
    /\ pc' = IF idx = Len(SOURCES(script)) THEN "dedupe" ELSE "loop"

\* script 1, one pass of the for loop of main()
ProcessSource_1 ==
    /\ script = 1 /\ pc = "loop"
    /\ LET src == SOURCES(1)[idx]
           body == safeFetch(server[idx])
       IN IF body.null \/ body.text = <<>>
          THEN /\ failed' = IF body.null THEN failed \cup {idx} ELSE failed
               /\ allJobs' = allJobs
          ELSE /\ allJobs' = allJobs \o (IF src.type = "rss"
                                          THEN rssToItems_1(body.text, src.name, clock)
                                          ELSE <<>>)
               /\ failed' = failed
    /\ Advance
    /\ UNCHANGED <<lastFetch, script, server, run, clock, jobs, sortNow, file,
                   payload, written, docs>>

\* script 2, one pass of the for loop of main(); a throw of rssToItems is
\* caught nowhere in main(), which rejects
ProcessSource_2 ==
    /\ script = 2 /\ pc = "loop"
    /\ LET src == SOURCES(2)[idx]
           body == safeFetch(server[idx])
       IN IF body.null \/ body.text = <<>>
          THEN /\ failed' = IF body.null THEN failed \cup {idx} ELSE failed
               /\ allJobs' = allJobs
               /\ Advance
          ELSE IF rssToItemsThrows_2(body.text, clock)
          THEN /\ failed' = failed \cup {idx}
               /\ allJobs' = allJobs
               /\ pc' = "aborted"
               /\ idx' = idx
          ELSE /\ allJobs' = allJobs \o rssToItems_2(body.text, src.name, clock)
               /\ failed' = failed
               /\ Advance
    /\ UNCHANGED <<lastFetch, script, server, run, clock, jobs, sortNow, file,
                   payload, written, docs>>

\* script 3, the items of one source tagged and hashed
tagged_3(items) ==
    [i \in DOMAIN items |->
       LET j == tagJob(items[i])
       IN [source |-> j.source, source_url |-> j.source_url, title |-> j.title,
           company |-> j.company, location |-> j.location,
           remote_type |-> j.remote_type, tags |-> j.tags, salary |-> j.salary,
           posted_at |-> j.posted_at, hash |-> makeHash(j)]]

\* script 3, one pass of the for loop of main(): try { fetch, parse, push }
\* catch { log }
ProcessSource_3 ==
    /\ script = 3 /\ pc = "loop"
    /\ LET s == SOURCES(3)[idx]
           raw == IF s.type = "json" THEN fetchJSON(server[idx])
                  ELSE fetchText(server[idx], 0)
       IN /\ IF raw.threw
             THEN /\ failed' = failed \cup {idx}
                  /\ allJobs' = allJobs
             ELSE IF s.type = "json" /\ parseRemotiveJSONThrows(raw.text)
             THEN /\ failed' = failed \cup {idx}
                  /\ allJobs' = allJobs
             ELSE /\ allJobs' =
                       allJobs \o tagged_3(IF s.type = "json"
                                           THEN parseRemotiveJSON(raw.text, s.name)
                                           ELSE parseGenericRSS(raw.text, s.name))
                  /\ failed' = failed
          /\ lastFetch' = IF s.type = "json" THEN lastFetch
                          ELSE [threw |-> raw.threw,
                                reason |-> IF raw.threw THEN raw.reason ELSE "",
                                log |-> raw.log]
    /\ Advance
    /\ UNCHANGED <<script, server, run, clock, jobs, sortNow, file, payload,
                   written, docs>>

\* let jobs = dedupe(allJobs)  /  the de-dupe loop of script 3
Dedupe ==
    /\ pc = "dedupe"
    /\ jobs' = CASE script = 1 -> dedupe_1(allJobs)
                 [] script = 2 -> dedupe_2(allJobs)
                 [] OTHER -> dedupe_3(allJobs)
    /\ pc' = "sort"
    /\ UNCHANGED <<lastFetch, script, server, run, idx, clock, allJobs, sortNow,
                   file, payload, written, failed, docs>>

\* jobs = sortAndLimit(jobs)  /  jobs = jobs.sort(...)  /  deduped.sort(...)
Sort ==
    /\ pc = "sort"
    /\ jobs' = CASE script = 1 -> sortAndLimit(jobs)
                 [] script = 2 -> sortByDate(jobs)
                 [] OTHER -> sort_3(jobs, clock)
    /\ sortNow' = clock
    /\ pc' = "write"
    /\ UNCHANGED <<lastFetch, script, server, run, idx, clock, allJobs, file,
                   payload, written, failed, docs>>

\* JSON.stringify(payload, null, 2): the members in order, as text
stringify(p, keys) == [i \in DOMAIN keys |-> <<keys[i], p[keys[i]]>>]

\* script 1: the payload, and the write when the content changed
Write_1 ==
    /\ script = 1 /\ pc = "write"
    /\ LET p == [updated_at |-> toISOString(clock), total_jobs |-> Len(jobs),
                 sources |-> SourceNames(1), jobs |-> jobs]
           nextContent == stringify(p, <<"updated_at", "total_jobs", "sources", "jobs">>)
           prevContent == file
       IN /\ payload' = p
          /\ docs' = Append(docs, p)
          /\ IF prevContent # nextContent
             THEN file' = nextContent /\ written' = "yes"
             ELSE file' = file /\ written' = "skipped"
    /\ pc' = "done"
    /\ UNCHANGED <<lastFetch, script, server, run, idx, clock, allJobs, jobs,
                   sortNow, failed>>

\* script 2: the payload and the write
Write_2 ==
    /\ script = 2 /\ pc = "write"
    /\ LET p == [updated_at |-> toISOString(clock), total_jobs |-> Len(jobs),
                 sources |-> SourceNames(2), jobs |-> jobs]
       IN /\ payload' = p
          /\ docs' = Append(docs, p)
          /\ file' = stringify(p, <<"updated_at", "total_jobs", "sources", "jobs">>)
    /\ written' = "yes"
    /\ pc' = "done"
    /\ UNCHANGED <<lastFetch, script, server, run, idx, clock, allJobs, jobs,
                   sortNow, failed>>

\* script 3: the payload and the write
Write_3 ==
    /\ script = 3 /\ pc = "write"
    /\ LET p == [updated_at |-> toISOString(clock), jobs |-> jobs]
       IN /\ payload' = p
          /\ docs' = Append(docs, p)
          /\ file' = stringify(p, <<"updated_at", "jobs">>)
    /\ written' = "yes"
    /\ pc' = "done"
    /\ UNCHANGED <<lastFetch, script, server, run, idx, clock, allJobs, jobs,
                   sortNow, failed>>

\* the script is started again, against the same servers
NextRun ==
    /\ pc \in {"done", "aborted"}
    /\ run < MaxRuns
    /\ run' = run + 1
    /\ pc' = "loop"
    /\ idx' = 1
    /\ allJobs' = <<>>
    /\ jobs' = <<>>
    /\ payload' = NoPayload
    /\ written' = "no"
    /\ failed' = {}
    /\ UNCHANGED <<lastFetch, script, server, clock, sortNow, file, docs>>

\* time passes while a run is under way
Tick ==
    /\ pc \notin {"done", "aborted"}
    /\ clock < MaxClock
    /\ clock' = clock + 1
    /\ UNCHANGED <<lastFetch, script, server, run, pc, idx, allJobs, jobs, sortNow,
                   file, payload, written, failed, docs>>

Next ==
    \/ ProcessSource_1
    \/ ProcessSource_2
    \/ ProcessSource_3
    \/ Dedupe
    \/ Sort
    \/ Write_1
    \/ Write_2
    \/ Write_3
    \/ NextRun
    \/ Tick

Spec == Init /\ [][Next]_vars
SpecBulk == InitBulk /\ [][Next]_vars
SpecFetch == InitFetch /\ [][Next]_vars

(***************************************************************************)
(* Properties.                                                             *)
(***************************************************************************)
NameOf(i) == SOURCES(script)[i].name
FromSource(s, i) == SelectSeq(s, LAMBDA j : j.source = NameOf(i))
AfterLoop == pc \in {"dedupe", "sort", "write", "done"}

\* what the parser of source i yields from the body its server sends
Yield(i) ==
    CASE script = 1 ->
           LET body == safeFetch(server[i])
           IN IF body.null THEN <<>> ELSE rssToItems_1(body.text, NameOf(i), clock)
      [] script = 2 ->
           LET body == safeFetch(server[i])
           IN IF body.null THEN <<>> ELSE rssToItems_2(body.text, NameOf(i), clock)
      [] OTHER ->
           LET s == SOURCES(3)[i]
               raw == IF s.type = "json" THEN fetchJSON(server[i])
                      ELSE fetchText(server[i], 0)
           IN IF raw.threw THEN <<>>
              ELSE IF s.type = "json"
                   THEN (IF parseRemotiveJSONThrows(raw.text) THEN <<>>
                         ELSE parseRemotiveJSON(raw.text, NameOf(i)))
              ELSE parseGenericRSS(raw.text, NameOf(i))

\* C1: whatever sources fail in fetch or parse, the run is not aborted: a
\* failing source contributes no record, all the other sources' records
\* reach the merge, and the run ends with a document.
C1_PartialFailureTolerated ==
    /\ pc # "aborted"
    /\ AfterLoop =>
         /\ \A i \in failed : FromSource(allJobs, i) = <<>>
         /\ \A i \in DOMAIN SOURCES(script) \ failed :
              Len(FromSource(allJobs, i)) = Len(Yield(i))
    /\ pc = "done" => payload # NoPayload

Fingerprint(j) ==
    CASE script = 1 -> key_1(j)
      [] script = 2 -> key_2(j)
      [] OTHER -> j.hash

\* the position in s of the first record with the fingerprint of j
FirstAt(s, j) ==
    CHOOSE i \in DOMAIN s :
      /\ Fingerprint(s[i]) = Fingerprint(j)
      /\ \A k \in 1..(i - 1) : Fingerprint(s[k]) # Fingerprint(j)

NoSharedFingerprint(s) ==
    \A a, b \in DOMAIN s : a # b => Fingerprint(s[a]) # Fingerprint(s[b])

\* C2: after deduplication no two records share a fingerprint; for every
\* fingerprint of the input the record kept is the first one in input order,
\* and the kept records are in the order of their first occurrences.
C2_DedupeKeepsFirstSeen ==
    /\ pc = "sort" =>
         /\ NoSharedFingerprint(jobs)
         /\ \A i \in DOMAIN allJobs :
              \E a \in DOMAIN jobs : Fingerprint(jobs[a]) = Fingerprint(allJobs[i])
         /\ \A a \in DOMAIN jobs :
              /\ \E i \in DOMAIN allJobs : Fingerprint(allJobs[i]) = Fingerprint(jobs[a])
              /\ jobs[a] = allJobs[FirstAt(allJobs, jobs[a])]
         /\ \A a, b \in DOMAIN jobs :
              a < b => FirstAt(allJobs, jobs[a]) < FirstAt(allJobs, jobs[b])
    /\ pc = "done" => NoSharedFingerprint(payload.jobs)

\* a duplicate was dropped that came after a record with another fingerprint
C2_Witness ==
    /\ pc = "sort"
    /\ Len(jobs) >= 2
    /\ \E i, j, k \in DOMAIN allJobs :
         /\ i < j /\ j < k
         /\ Fingerprint(allJobs[i]) = Fingerprint(allJobs[k])
         /\ Fingerprint(allJobs[i]) # Fingerprint(allJobs[j])
         /\ allJobs[i] # allJobs[k]

\* the instant a record is ordered at: its date, or the time of the run
SortTs(j) == IF DateParse(j.posted_at) # NaN THEN DateParse(j.posted_at) ELSE sortNow

\* C3: in the emitted jobs every record's posted_at is at or after that of
\* the next record, a record whose posted_at does not parse counting as
\* posted at the time of the run.
C3_NewestFirst ==
    pc = "done" =>
      \A i \in 1..(Len(payload.jobs) - 1) :
        SortTs(payload.jobs[i]) >= SortTs(payload.jobs[i + 1])

\* an undated record was emitted between a later and an earlier one, and the
\* emitted order is not the order the records were collected in
C3_Witness ==
    /\ pc = "done"
    /\ \E i, j, k \in DOMAIN payload.jobs :
         /\ i < j /\ j < k
         /\ DateParse(payload.jobs[j].posted_at) = NaN
         /\ SortTs(payload.jobs[i]) > sortNow
         /\ SortTs(payload.jobs[k]) < sortNow
    /\ \E a, b \in DOMAIN allJobs :
         /\ a < b
         /\ \E x, y \in DOMAIN payload.jobs :
              x > y /\ payload.jobs[x] = allJobs[a] /\ payload.jobs[y] = allJobs[b]

\* the fingerprints of the records of s
Fingerprints(s) == {Fingerprint(s[i]) : i \in DOMAIN s}

\* C4: the emitted jobs never hold more than 2000 records; when deduplication
\* leaves more than 2000, exactly 2000 are emitted and every emitted record's
\* posted_at is at or after that of every record left out.
C4_AtMostLimitNewestKept ==
    pc = "done" =>
      /\ Len(payload.jobs) <= LIMIT
      /\ Cardinality(Fingerprints(allJobs)) > LIMIT =>
           /\ Len(payload.jobs) = LIMIT
           /\ LET kept == Fingerprints(payload.jobs)
                  out == {i \in DOMAIN allJobs : Fingerprint(allJobs[i]) \notin kept}
              IN \A a \in DOMAIN payload.jobs : \A i \in out :
                   SortTs(payload.jobs[a]) >= SortTs(allJobs[i])

\* C5: every emitted document has total_jobs equal to the length of jobs and
\* sources listing the name of every configured source in configuration
\* order, whether the source succeeded or failed.
C5_CountAndSources ==
    pc = "done" =>
      /\ "total_jobs" \in DOMAIN payload
      /\ payload.total_jobs = Len(payload.jobs)
      /\ "sources" \in DOMAIN payload
      /\ payload.sources = SourceNames(script)

\* C6: two runs in a row against the same payloads build the same jobs, and
\* the second run finds the document unchanged and skips the write.
C6_SecondRunSkipsWrite ==
    (pc = "done" /\ Len(docs) = 2) =>
      /\ docs[1].jobs = docs[2].jobs
      /\ written = "skipped"

\* the link starts with a URL scheme
IsAbsolute(url) == url # <<>> /\ url[1] \in {"http://", "https://"}

\* C7: every emitted record has a non-empty title and a non-empty, absolute
\* source_url; an item whose title or link is empty, or whose link is not
\* absolute, never reaches the output.
C7_TitleAndAbsoluteUrl ==
    pc = "done" =>
      \A i \in DOMAIN payload.jobs :
        /\ payload.jobs[i].title # <<>>
        /\ IsAbsolute(payload.jobs[i].source_url)

\* C8: every emitted record's posted_at parses to a timestamp: an absent or
\* unparsable publish date becomes the ingestion time, rather than a failure
\* or the raw value.
C8_PostedAtParses ==
    /\ pc = "done" =>
         \A i \in DOMAIN payload.jobs : DateParse(payload.jobs[i].posted_at) # NaN
    /\ pc # "aborted"

NoDuplicates(s) == \A a, b \in DOMAIN s : a # b => s[a] # s[b]

\* C9: every emitted record's tags hold no entry twice and at most 6 entries.
C9_TagsDistinctAtMostSix ==
    pc = "done" =>
      \A i \in DOMAIN payload.jobs :
        /\ NoDuplicates(payload.jobs[i].tags)
        /\ Len(payload.jobs[i].tags) <= 6

\* the text without its differences of letter case and whitespace
Normalized(text) == trim(collapseWs(toLowerCase(text)))
SamePosting(a, b) ==
    /\ Normalized(a.title) = Normalized(b.title)
    /\ Normalized(a.source_url) = Normalized(b.source_url)

\* C10: of input records whose title and source_url are the same up to letter
\* case and whitespace, from one source or from several, exactly one
\* survives deduplication.
C10_OneSurvivorPerPosting ==
    pc = "sort" =>
      \A i, k \in DOMAIN allJobs :
        (i < k /\ SamePosting(allJobs[i], allJobs[k])) =>
          Cardinality({a \in DOMAIN jobs : SamePosting(jobs[a], allJobs[i])}) = 1

\* the redirect hops a fetch followed: its requests made for a redirect
Hops(log) == Cardinality({i \in DOMAIN log : log[i].cause = "redirect"})

IsRedirect(status) == status \in {301, 302, 307, 308}

\* C11: a fetch ends after a bounded number of requests: it follows at most 5
\* redirect hops (so, with the one retry, makes at most 7 requests), and a
\* redirect that arrives when 5 hops were followed is not followed but fails
\* the fetch with the too-many-redirects error.
C11_AtMostFiveRedirectHops ==
    lastFetch # NoFetch =>
      LET log == lastFetch.log
      IN /\ Hops(log) <= 5
         /\ Len(log) <= 7
         /\ \A i \in DOMAIN log :
              (/\ IsRedirect(log[i].status)
               /\ log[i].url >= 5
               /\ lastFetch.reason # "redirect-without-location") =>
                (i = Len(log) /\ lastFetch.threw
                 /\ lastFetch.reason = "too-many-redirects")

\* the requests of a fetch that are retries
Retries(log) == {i \in DOMAIN log : log[i].cause = "retry"}

====
